---- MODULE Spec2Model ----
(***************************************************************************)
(* Digital business card backend (src/main.py): the document store with   *)
(* its three collections, and the request handlers as sequences of store  *)
(* calls.  Every store call (find_one, insert_one, update_one, ...) is one *)
(* atomic step of the request that makes it; requests of different        *)
(* workers interleave between store calls.                                 *)
(*                                                                         *)
(* Python values: a value v is the one-element sequence <<v>>, None is the *)
(* empty sequence.  A document is a function from its keys to values, so a *)
(* key can be absent, present with None, or present with a value.          *)
(* Collections are sequences in insertion order (the order find returns).  *)
(***************************************************************************)
EXTENDS Integers, Sequences, FiniteSets, TLC

VARIABLES user, profile, sociallink, nextOid, clock, nreq, pc, req, last, cur, tmp, resp, pre, entry

vars == <<user, profile, sociallink, nextOid, clock, nreq, pc, req, last, cur, tmp, resp, pre, entry>>

store == <<user, profile, sociallink>>

\* Bounds of the model.
MaxRequests == 2
MaxClock == 1
NumProcs == 2

Procs == 1..NumProcs

None == <<>>
Some(v) == <<v>>

(***************************************************************************)
(* bson.ObjectId and its string form.  An ObjectId is a number; its string *)
(* form is 24 hex characters, which str() renders in lower case and which  *)
(* ObjectId() parses in either case.  A string is modelled by the number   *)
(* it spells and the case of its letters (every generated id is taken to  *)
(* contain a hex letter); "bad" is a string that is not 24 hex characters. *)
(***************************************************************************)
Str(oid) == [hex |-> oid, form |-> "lower"]

UpperCase(s) == [hex |-> s.hex, form |-> IF s.form = "lower" THEN "upper" ELSE s.form]

Malformed == [hex |-> 0, form |-> "bad"]

\* ObjectId(s) raises bson.errors.InvalidId
Raises(s) == s.form \notin {"lower", "upper"}

ObjectId(s) == s.hex

\* A well-formed id no document ever gets: the store numbers documents from 1.
UnknownId == Str(0)

DemoEmail == "demo@flamesblue.com"

DemoSlug == "flames-blue"

(***************************************************************************)
(* dict and collection operations                                          *)
(***************************************************************************)
Get(doc, k) == IF k \in DOMAIN doc THEN doc[k] ELSE None

GetDefault(doc, k, d) == IF k \in DOMAIN doc THEN doc[k] ELSE Some(d)

\* bool(v) of a value a document holds under is_admin
Bool(v) == v = Some(TRUE)

\* truthiness of an optional string
Truthy(v) == v # None /\ v # Some("")

\* {k: v for k, v in payload.model_dump().items() if v is not None}
NonNull(payload) == [k \in {x \in DOMAIN payload : payload[x] # None} |-> payload[k]]

\* dict.update / the $set operator
Merge(doc, upd) ==
  [k \in (DOMAIN doc) \cup (DOMAIN upd) |-> IF k \in DOMAIN upd THEN upd[k] ELSE doc[k]]

\* an equality filter
Matches(doc, filter) == \A k \in DOMAIN filter : k \in DOMAIN doc /\ doc[k] = filter[k]

Find(coll, filter) == SelectSeq(coll, LAMBDA d : Matches(d, filter))

FindOne(coll, filter) ==
  LET m == Find(coll, filter) IN IF Len(m) = 0 THEN None ELSE Some(m[1])

FirstMatch(coll, filter) ==
  CHOOSE i \in 1..Len(coll) :
    Matches(coll[i], filter) /\ \A j \in 1..(i - 1) : ~Matches(coll[j], filter)

MatchedCount(coll, filter) == IF Len(Find(coll, filter)) = 0 THEN 0 ELSE 1

InsertOne(coll, doc) == Append(coll, doc)

UpdateOne(coll, filter, upd) ==
  IF MatchedCount(coll, filter) = 0 THEN coll
  ELSE LET i == FirstMatch(coll, filter) IN [coll EXCEPT ![i] = Merge(@, upd)]

DeleteOne(coll, filter) ==
  IF MatchedCount(coll, filter) = 0 THEN coll
  ELSE LET i == FirstMatch(coll, filter) IN
       SubSeq(coll, 1, i - 1) \o SubSeq(coll, i + 1, Len(coll))

DeleteMany(coll, filter) == SelectSeq(coll, LAMBDA d : ~Matches(d, filter))

(***************************************************************************)
(* Request payloads (the pydantic models after model_dump) and the inputs *)
(* the requests are drawn from                                             *)
(***************************************************************************)
ProfileUpdate(jt, co, ph, bio) ==
  [job_title |-> jt, company |-> co, phone_number |-> ph, bio |-> bio]

SocialLinkCreate(pf, url) == [platform |-> pf, url |-> url]

AdminUserUpdate(nm, em, adm, slug) ==
  [name |-> nm, email |-> em, is_admin |-> adm, profile_slug |-> slug]

ProfilePayloads ==
  { ProfileUpdate(None, None, None, None),
    ProfileUpdate(None, Some("Acme"), None, None),
    ProfileUpdate(Some(""), None, Some(""), None) }

LinkPayloads ==
  { SocialLinkCreate("url", "https://j.example"),
    SocialLinkCreate("Website", "https://w.example") }

AdminPayloads ==
  { AdminUserUpdate(None, None, None, None),
    AdminUserUpdate(None, Some(""), None, None),
    AdminUserUpdate(Some("Jane Doe"), None, None, Some("jane")),
    AdminUserUpdate(None, None, Some(FALSE), None) }

Slugs == {DemoSlug, "jane", "nobody"}

Range(seq) == {seq[i] : i \in 1..Len(seq)}

\* path parameters: the ids of the documents in the store in both cases, a
\* well-formed id of no document, and a string that is no ObjectId
IdInputs(coll) ==
  {Str(d._id[1]) : d \in Range(coll)} \cup {UpperCase(Str(d._id[1])) : d \in Range(coll)}
    \cup {UnknownId, Malformed}

Requests ==
  {[kind |-> "update_profile", payload |-> x] : x \in ProfilePayloads}
    \cup {[kind |-> "create_social_link", payload |-> x] : x \in LinkPayloads}
    \cup {[kind |-> "delete_social_link", sid |-> x] : x \in IdInputs(sociallink)}
    \cup {[kind |-> "admin_get_user", uid |-> x] : x \in IdInputs(user)}
    \cup {[kind |-> "admin_update_user", uid |-> x[1], payload |-> x[2]] :
            x \in IdInputs(user) \X AdminPayloads}
    \cup {[kind |-> "admin_delete_user", uid |-> x] : x \in IdInputs(user)}
    \cup {[kind |-> "get_vcard", slug |-> x] : x \in Slugs}

AdminKinds == {"admin_get_user", "admin_update_user", "admin_delete_user"}

NoReq == [kind |-> "none"]

Response(status, detail) == [status |-> status, detail |-> detail, body |-> None]

ResponseBody(status, detail, body) == [status |-> status, detail |-> detail, body |-> Some(body)]

NoResp == Response(0, "")

InProgress(p) == pc[p] \notin {"idle", "done"}

(***************************************************************************)
(* The documents ensure_demo_user inserts                                  *)
(***************************************************************************)
DemoUser(oid, now) ==
  [_id |-> Some(oid), name |-> Some("Flames Blue"), email |-> Some(DemoEmail),
   password_hash |-> Some("demo"), is_admin |-> Some(TRUE),
   profile_slug |-> Some(DemoSlug),
   created_at |-> Some(now), updated_at |-> Some(now)]

DemoProfile(oid, uid, now) ==
  [_id |-> Some(oid), user_id |-> Some(Str(uid)),
   job_title |-> Some("Vibe Coding Agent"), company |-> Some("FlamesBlue"),
   phone_number |-> Some("+1 555 123 4567"),
   bio |-> Some("We build beautiful digital identity experiences."),
   profile_image_path |-> None,
   created_at |-> Some(now), updated_at |-> Some(now)]

DemoLink(oid, uid, pf, url, now) ==
  [_id |-> Some(oid), user_id |-> Some(Str(uid)), platform |-> Some(pf), url |-> Some(url),
   created_at |-> Some(now), updated_at |-> Some(now)]

(***************************************************************************)
(* Initial state: the process has started, no request has arrived, the    *)
(* store is empty.                                                         *)
(***************************************************************************)
Init ==
  /\ user = <<>>
  /\ profile = <<>>
  /\ sociallink = <<>>
  /\ nextOid = 1
  /\ clock = 0
  /\ nreq = 0
  /\ pc = [p \in Procs |-> "idle"]
  /\ req = [p \in Procs |-> NoReq]
  /\ last = [p \in Procs |-> NoReq]
  /\ cur = [p \in Procs |-> None]
  /\ tmp = [p \in Procs |-> None]
  /\ resp = [p \in Procs |-> NoResp]
  /\ pre = [p \in Procs |-> None]
  /\ entry = [p \in Procs |-> None]

(***************************************************************************)
(* The store outlives the process.  A process that stopped between the    *)
(* insert of the demo user and the insert of its profile (lines 40, 41)   *)
(* leaves the demo user alone in the store: the sequential specification  *)
(* starts from the empty store or from that one.                           *)
(***************************************************************************)
InitSeq ==
  /\ \/ /\ user = <<>>
        /\ nextOid = 1
     \/ /\ user = <<DemoUser(1, 0)>>
        /\ nextOid = 2
  /\ profile = <<>>
  /\ sociallink = <<>>
  /\ clock = 0
  /\ nreq = 0
  /\ pc = [p \in Procs |-> "idle"]
  /\ req = [p \in Procs |-> NoReq]
  /\ last = [p \in Procs |-> NoReq]
  /\ cur = [p \in Procs |-> None]
  /\ tmp = [p \in Procs |-> None]
  /\ resp = [p \in Procs |-> NoResp]
  /\ pre = [p \in Procs |-> None]
  /\ entry = [p \in Procs |-> None]

\* datetime.now(timezone.utc) reads the clock; time passes between any two steps
Tick ==
  /\ clock < MaxClock
  /\ clock' = clock + 1
  /\ UNCHANGED <<user, profile, sociallink, nextOid, nreq, pc, req, last, cur, tmp, resp, pre, entry>>

Goto(p, label) == pc' = [pc EXCEPT ![p] = label]

Return(p, r) ==
  /\ pc' = [pc EXCEPT ![p] = "done"]
  /\ resp' = [resp EXCEPT ![p] = r]

(***************************************************************************)
(* A request arrives at worker p.  pre[p] records the store as the request *)
(* found it, for as long as the request runs alone: it is dropped when     *)
(* another request starts, so it is present at the end of a request        *)
(* exactly when no other request ran during it.  last[p] is the request p  *)
(* completed just before this one, when no request of another worker      *)
(* started since that one began.                                           *)
(***************************************************************************)
Start(p) ==
  /\ ~InProgress(p)
  /\ nreq < MaxRequests
  /\ \E r \in Requests :
       /\ req' = [req EXCEPT ![p] = r]
       /\ pc' = [pc EXCEPT ![p] =
                   IF r.kind = "get_vcard" THEN "fetch_user" ELSE "demo_find"]
  /\ pre' = [q \in Procs |->
               IF q = p /\ \A o \in Procs \ {p} : ~InProgress(o) THEN Some(store) ELSE None]
  /\ entry' = [q \in Procs |-> None]
  /\ last' = [q \in Procs |->
                IF q = p /\ pc[p] = "done" /\ pre[p] # None THEN req[p] ELSE NoReq]
  /\ cur' = [cur EXCEPT ![p] = None]
  /\ tmp' = [tmp EXCEPT ![p] = None]
  /\ resp' = [resp EXCEPT ![p] = NoResp]
  /\ nreq' = nreq + 1
  /\ UNCHANGED <<user, profile, sociallink, nextOid, clock>>

serialize_user(user_doc) ==
  [id |-> Str(user_doc._id[1]),
   name |-> Get(user_doc, "name"),
   email |-> Get(user_doc, "email"),
   is_admin |-> Bool(GetDefault(user_doc, "is_admin", FALSE)),
   profile_slug |-> Get(user_doc, "profile_slug")]

\* require_admin raises 403
require_admin(u) == Bool(GetDefault(u, "is_admin", FALSE))

\* mutant: the early return of admin_update_user is never taken
IsNoChange_Never(payload) == FALSE

\* admin_update_user: if not update_doc
IsNoChange(payload) == DOMAIN NonNull(payload) = {}

(***************************************************************************)
(* get_current_user and require_admin, once ensure_demo_user has returned  *)
(* u, and the handler's steps before its first store call: where the      *)
(* request goes next.  entry[p] records the store at the handler's entry.  *)
(***************************************************************************)
get_current_user(p, u) ==
  /\ cur' = [cur EXCEPT ![p] = u]
  /\ tmp' = [tmp EXCEPT ![p] = None]
  /\ entry' = [entry EXCEPT ![p] = IF pre[p] # None THEN Some(store) ELSE None]
  /\ LET k == req[p].kind IN
     IF u = None
     THEN Return(p, Response(500, "Database not configured"))
     ELSE IF k \in AdminKinds /\ ~require_admin(u[1])
     THEN Return(p, Response(403, "Admin only"))
     ELSE IF k = "admin_update_user" /\ IsNoChange(req[p].payload)
     THEN Return(p, Response(200, "no_changes"))
     ELSE /\ Goto(p, k)
          /\ UNCHANGED resp

(***************************************************************************)
(* ensure_demo_user, one step per store call                               *)
(***************************************************************************)
ensure_demo_user_find(p) ==
  /\ pc[p] = "demo_find"
  /\ LET u == FindOne(user, [email |-> Some(DemoEmail)]) IN
     IF u = None
     THEN /\ Goto(p, "demo_insert_user")
          /\ UNCHANGED <<cur, tmp, resp, entry>>
     ELSE get_current_user(p, u)
  /\ UNCHANGED <<user, profile, sociallink, nextOid, clock, nreq, req, last, pre>>

ensure_demo_user_insert_user(p) ==
  /\ pc[p] = "demo_insert_user"
  /\ user' = InsertOne(user, DemoUser(nextOid, clock))
  /\ nextOid' = nextOid + 1
  /\ tmp' = [tmp EXCEPT ![p] = Some(nextOid)]
  /\ Goto(p, "demo_insert_profile")
  /\ UNCHANGED <<profile, sociallink, clock, nreq, req, last, cur, resp, pre, entry>>

ensure_demo_user_insert_profile(p) ==
  /\ pc[p] = "demo_insert_profile"
  /\ profile' = InsertOne(profile, DemoProfile(nextOid, tmp[p][1], clock))
  /\ nextOid' = nextOid + 1
  /\ Goto(p, "demo_insert_links")
  /\ UNCHANGED <<user, sociallink, clock, nreq, req, last, cur, tmp, resp, pre, entry>>

ensure_demo_user_insert_links(p) ==
  /\ pc[p] = "demo_insert_links"
  /\ sociallink' = sociallink \o
       << DemoLink(nextOid, tmp[p][1], "website", "https://flamesblue.com", clock),
          DemoLink(nextOid + 1, tmp[p][1], "linkedin",
                   "https://linkedin.com/company/flamesblue", clock),
          DemoLink(nextOid + 2, tmp[p][1], "github", "https://github.com/", clock) >>
  /\ nextOid' = nextOid + 3
  /\ Goto(p, "demo_refind")
  /\ UNCHANGED <<user, profile, clock, nreq, req, last, cur, tmp, resp, pre, entry>>

ensure_demo_user_refind(p) ==
  /\ pc[p] = "demo_refind"
  /\ get_current_user(p, FindOne(user, [_id |-> tmp[p]]))
  /\ UNCHANGED <<user, profile, sociallink, nextOid, clock, nreq, req, last, pre>>

\* uid = str(user["_id"])
Uid(p) == Str(cur[p][1]._id[1])

(***************************************************************************)
(* PUT /api/profile                                                        *)
(***************************************************************************)
update_profile(p) ==
  /\ pc[p] = "update_profile"
  /\ tmp' = [tmp EXCEPT ![p] =
       Some([now |-> clock, existing |-> FindOne(profile, [user_id |-> Some(Uid(p))])])]
  /\ Goto(p, "update_profile_write")
  /\ UNCHANGED <<user, profile, sociallink, nextOid, clock, nreq, req, last, cur, resp, pre, entry>>

\* mutant: the payload's None values are not filtered out
ProfileUpdateDoc_KeepsNulls(payload, now) == Merge(payload, [updated_at |-> Some(now)])

\* update_doc of update_profile
ProfileUpdateDoc(payload, now) == Merge(NonNull(payload), [updated_at |-> Some(now)])

\* mutant: the existing Profile is not looked at
UpsertProfile_AlwaysInserts(coll, existing, update_doc, uid, now, oid) ==
  InsertOne(coll,
    Merge(Merge(update_doc, [user_id |-> Some(uid), created_at |-> Some(now)]),
          [_id |-> Some(oid)]))

\* if existing: update_one(...) else: insert_one(...)
UpsertProfile(coll, existing, update_doc, uid, now, oid) ==
  IF existing # None
  THEN UpdateOne(coll, [_id |-> existing[1]._id], update_doc)
  ELSE InsertOne(coll,
         Merge(Merge(update_doc, [user_id |-> Some(uid), created_at |-> Some(now)]),
               [_id |-> Some(oid)]))

update_profile_write(p) ==
  /\ pc[p] = "update_profile_write"
  /\ profile' = UpsertProfile(profile, tmp[p][1].existing,
                              ProfileUpdateDoc(req[p].payload, tmp[p][1].now),
                              Uid(p), tmp[p][1].now, nextOid)
  /\ nextOid' = IF tmp[p][1].existing # None THEN nextOid ELSE nextOid + 1
  /\ Return(p, Response(200, "ok"))
  /\ UNCHANGED <<user, sociallink, clock, nreq, req, last, cur, tmp, pre, entry>>

(***************************************************************************)
(* POST /api/social-links                                                  *)
(***************************************************************************)
create_social_link(p) ==
  /\ pc[p] = "create_social_link"
  /\ sociallink' = InsertOne(sociallink,
       [_id |-> Some(nextOid), user_id |-> Some(Uid(p)),
        platform |-> Some(req[p].payload.platform), url |-> Some(req[p].payload.url),
        created_at |-> Some(clock), updated_at |-> Some(clock)])
  /\ nextOid' = nextOid + 1
  /\ Return(p, ResponseBody(200, "id", Str(nextOid)))
  /\ UNCHANGED <<user, profile, clock, nreq, req, last, cur, tmp, pre, entry>>

(***************************************************************************)
(* DELETE /api/social-links/{sid}.  ObjectId(sid) is not inside a try: a   *)
(* string that is no ObjectId raises out of the handler (a 500 response).  *)
(***************************************************************************)
delete_social_link(p) ==
  /\ pc[p] = "delete_social_link"
  /\ IF Raises(req[p].sid)
     THEN Return(p, Response(500, "Internal Server Error"))
     ELSE LET doc == FindOne(sociallink, [_id |-> Some(ObjectId(req[p].sid))]) IN
          IF doc = None \/ Get(doc[1], "user_id") # Some(Uid(p))
          THEN Return(p, Response(404, "Not found"))
          ELSE /\ Goto(p, "delete_social_link_delete")
               /\ UNCHANGED resp
  /\ UNCHANGED <<user, profile, sociallink, nextOid, clock, nreq, req, last, cur, tmp, pre, entry>>

delete_social_link_delete(p) ==
  /\ pc[p] = "delete_social_link_delete"
  /\ sociallink' = DeleteOne(sociallink, [_id |-> Some(ObjectId(req[p].sid))])
  /\ Return(p, Response(200, "deleted"))
  /\ UNCHANGED <<user, profile, nextOid, clock, nreq, req, last, cur, tmp, pre, entry>>

(***************************************************************************)
(* GET, PUT, DELETE /api/admin/users/{uid}                                 *)
(***************************************************************************)
\* The admin handlers wrap ObjectId(uid) and the store call in one try: the
\* call raises when uid is no ObjectId or when the store fails (fails).
admin_get_user(p) ==
  /\ pc[p] = "admin_get_user"
  /\ \E fails \in BOOLEAN :
       LET doc == IF Raises(req[p].uid) \/ fails THEN None
                  ELSE FindOne(user, [_id |-> Some(ObjectId(req[p].uid))])
       IN /\ tmp' = [tmp EXCEPT ![p] = Some([raised |-> Raises(req[p].uid) \/ fails])]
          /\ IF doc = None
             THEN Return(p, Response(404, "User not found"))
             ELSE Return(p, ResponseBody(200, "user", serialize_user(doc[1])))
  /\ UNCHANGED <<user, profile, sociallink, nextOid, clock, nreq, req, last, cur, pre, entry>>

\* update_doc of admin_update_user
AdminUpdateDoc(payload, now) == Merge(NonNull(payload), [updated_at |-> Some(now)])

\* mutant: the exception is reported as Not Found
InvalidUserId_AsNotFound == Response(404, "User not found")

\* except Exception: raise HTTPException(400)
InvalidUserId == Response(400, "Invalid user id")

admin_update_user(p) ==
  /\ pc[p] = "admin_update_user"
  /\ \E fails \in BOOLEAN :
       /\ tmp' = [tmp EXCEPT ![p] = Some([raised |-> Raises(req[p].uid) \/ fails])]
       /\ IF Raises(req[p].uid) \/ fails
          THEN /\ Return(p, InvalidUserId)
               /\ UNCHANGED user
          ELSE LET filter == [_id |-> Some(ObjectId(req[p].uid))] IN
               /\ user' = UpdateOne(user, filter, AdminUpdateDoc(req[p].payload, clock))
               /\ IF MatchedCount(user, filter) = 0
                  THEN Return(p, Response(404, "User not found"))
                  ELSE /\ Goto(p, "admin_update_user_find")
                       /\ UNCHANGED resp
  /\ UNCHANGED <<profile, sociallink, nextOid, clock, nreq, req, last, cur, pre, entry>>

\* serialize_user(None) raises out of the handler
admin_update_user_find(p) ==
  /\ pc[p] = "admin_update_user_find"
  /\ LET doc == FindOne(user, [_id |-> Some(ObjectId(req[p].uid))]) IN
     IF doc = None
     THEN Return(p, Response(500, "Internal Server Error"))
     ELSE Return(p, ResponseBody(200, "user", serialize_user(doc[1])))
  /\ UNCHANGED <<user, profile, sociallink, nextOid, clock, nreq, req, last, cur, tmp, pre, entry>>

admin_delete_user(p) ==
  /\ pc[p] = "admin_delete_user"
  /\ \E fails \in BOOLEAN :
       /\ tmp' = [tmp EXCEPT ![p] = Some([raised |-> Raises(req[p].uid) \/ fails])]
       /\ IF Raises(req[p].uid) \/ fails
          THEN /\ Return(p, InvalidUserId)
               /\ UNCHANGED user
          ELSE LET filter == [_id |-> Some(ObjectId(req[p].uid))] IN
               /\ user' = DeleteOne(user, filter)
               /\ IF MatchedCount(user, filter) = 0
                  THEN Return(p, Response(404, "User not found"))
                  ELSE /\ Goto(p, "admin_delete_user_profile")
                       /\ UNCHANGED resp
  /\ UNCHANGED <<profile, sociallink, nextOid, clock, nreq, req, last, cur, pre, entry>>

\* the filter of the two cleanup calls: the path parameter as it was sent
CleanupFilter(uid) == [user_id |-> Some(uid)]

admin_delete_user_profile(p) ==
  /\ pc[p] = "admin_delete_user_profile"
  /\ profile' = DeleteMany(profile, CleanupFilter(req[p].uid))
  /\ Goto(p, "admin_delete_user_links")
  /\ UNCHANGED <<user, sociallink, nextOid, clock, nreq, req, last, cur, tmp, resp, pre, entry>>

admin_delete_user_links(p) ==
  /\ pc[p] = "admin_delete_user_links"
  /\ sociallink' = DeleteMany(sociallink, CleanupFilter(req[p].uid))
  /\ Return(p, Response(200, "deleted"))
  /\ UNCHANGED <<user, profile, nextOid, clock, nreq, req, last, cur, tmp, pre, entry>>

(***************************************************************************)
(* GET /api/p/{slug}/vcf: fetch_profile_bundle_by_slug, then the vCard     *)
(***************************************************************************)
fetch_profile_bundle_by_slug_user(p) ==
  /\ pc[p] = "fetch_user"
  /\ LET u == FindOne(user, [profile_slug |-> Some(req[p].slug)]) IN
     IF u = None
     THEN /\ Return(p, Response(404, "Profile not found"))
          /\ UNCHANGED tmp
     ELSE /\ tmp' = [tmp EXCEPT ![p] = Some([user |-> u[1]])]
          /\ Goto(p, "fetch_profile")
          /\ UNCHANGED resp
  /\ UNCHANGED <<user, profile, sociallink, nextOid, clock, nreq, req, last, cur, pre, entry>>

fetch_profile_bundle_by_slug_profile(p) ==
  /\ pc[p] = "fetch_profile"
  /\ tmp' = [tmp EXCEPT ![p] =
       Some([user |-> tmp[p][1].user,
             profile |-> FindOne(profile, [user_id |-> Some(Str(tmp[p][1].user._id[1]))])])]
  /\ Goto(p, "fetch_links")
  /\ UNCHANGED <<user, profile, sociallink, nextOid, clock, nreq, req, last, cur, resp, pre, entry>>

ProfileField(prof, k) == IF prof # None THEN Get(prof[1], k) ELSE None

LinkView(l) == [id |-> Str(l._id[1]), platform |-> Get(l, "platform"), url |-> Get(l, "url")]

Bundle(u, prof, links) ==
  [user |-> serialize_user(u),
   profile |-> [job_title |-> ProfileField(prof, "job_title"),
                company |-> ProfileField(prof, "company"),
                phone_number |-> ProfileField(prof, "phone_number"),
                bio |-> ProfileField(prof, "bio"),
                profile_image_path |-> ProfileField(prof, "profile_image_path")],
   social_links |-> [i \in 1..Len(links) |-> LinkView(links[i])]]

\* how an f-string renders a value
Format(v) == IF v = None THEN "None" ELSE v[1]

\* v or ''
OrEmpty(v) == IF Truthy(v) THEN v[1] ELSE ""

WebsitePlatforms == {Some("website"), Some("link"), Some("url")}

\* next((l for l in social_links if l.get("platform") in (...)), None)
FirstWebsite(links) ==
  LET m == SelectSeq(links, LAMBDA l : l.platform \in WebsitePlatforms) IN
  IF Len(m) = 0 THEN None ELSE Some(m[1])

\* the lines of the vCard, each the pieces its f-string puts together
VCardLines(bundle) ==
  LET u == bundle.user
      prof == bundle.profile
      first_website == FirstWebsite(bundle.social_links)
  IN << <<"BEGIN:VCARD">>,
        <<"VERSION:3.0">>,
        <<"N:", Format(u.name), ";">>,
        <<"FN:", Format(u.name)>>,
        <<"ORG:", OrEmpty(prof.company)>>,
        <<"TITLE:", OrEmpty(prof.job_title)>> >>
     \o (IF Truthy(prof.phone_number)
         THEN << <<"TEL;TYPE=CELL:", Format(prof.phone_number)>> >> ELSE <<>>)
     \o (IF Truthy(u.email)
         THEN << <<"EMAIL;TYPE=INTERNET:", Format(u.email)>> >> ELSE <<>>)
     \o (IF first_website # None
         THEN << <<"URL:", Format(first_website[1].url)>> >> ELSE <<>>)
     \o << <<"END:VCARD">> >>

\* mutant: lines joined with a bare line feed
CRLF_BareLF == "\n"

CRLF == "\r\n"

\* sep.join(lines): the pieces of the lines, sep between two lines
RECURSIVE Join(_, _)
Join(sep, lines) ==
  IF Len(lines) = 0 THEN <<>>
  ELSE IF Len(lines) = 1 THEN lines[1]
  ELSE lines[1] \o <<sep>> \o Join(sep, Tail(lines))

\* name.replace(' ', '_'), on the names of the model
Underscored(name) ==
  CASE name = "Flames Blue" -> "Flames_Blue"
    [] name = "Jane Doe" -> "Jane_Doe"
    [] OTHER -> name

VCard(bundle) ==
  [vcard_str |-> Join(CRLF, VCardLines(bundle)),
   filename |-> <<Underscored(Format(bundle.user.name)), ".vcf">>]

get_vcard(p) ==
  /\ pc[p] = "fetch_links"
  /\ LET uid == Str(tmp[p][1].user._id[1])
         bundle == Bundle(tmp[p][1].user, tmp[p][1].profile,
                          Find(sociallink, [user_id |-> Some(uid)]))
     IN Return(p, ResponseBody(200, "vcard", VCard(bundle)))
  /\ UNCHANGED <<user, profile, sociallink, nextOid, clock, nreq, req, last, cur, tmp, pre, entry>>

(***************************************************************************)
(* Specifications.  Spec: NumProcs workers, their requests interleaved     *)
(* between store calls.  SpecSeq: one worker, one request at a time.       *)
(***************************************************************************)
Step(p) ==
  \/ Start(p)
  \/ ensure_demo_user_find(p)
  \/ ensure_demo_user_insert_user(p)
  \/ ensure_demo_user_insert_profile(p)
  \/ ensure_demo_user_insert_links(p)
  \/ ensure_demo_user_refind(p)
  \/ update_profile(p)
  \/ update_profile_write(p)
  \/ create_social_link(p)
  \/ delete_social_link(p)
  \/ delete_social_link_delete(p)
  \/ admin_get_user(p)
  \/ admin_update_user(p)
  \/ admin_update_user_find(p)
  \/ admin_delete_user(p)
  \/ admin_delete_user_profile(p)
  \/ admin_delete_user_links(p)
  \/ fetch_profile_bundle_by_slug_user(p)
  \/ fetch_profile_bundle_by_slug_profile(p)
  \/ get_vcard(p)

Next == Tick \/ \E p \in Procs : Step(p)

Spec == Init /\ [][Next]_vars

NextSeq == Tick \/ Step(1)

SpecSeq == InitSeq /\ [][NextSeq]_vars

(***************************************************************************)
(* Properties.  A request-level contract is stated of a request that has   *)
(* returned (pc = "done") and ran alone: pre[p] is then the store the      *)
(* request found and entry[p] the store at the handler's entry, after the  *)
(* acting user was resolved.                                               *)
(***************************************************************************)
Done(p, kind) == pc[p] = "done" /\ req[p].kind = kind

PreUser(p) == pre[p][1][1]
PreProfile(p) == pre[p][1][2]
PreLinks(p) == pre[p][1][3]
EntryUser(p) == entry[p][1][1]
EntryProfile(p) == entry[p][1][2]
EntryLinks(p) == entry[p][1][3]

SameKey(a, b, k) == (k \in DOMAIN a) = (k \in DOMAIN b) /\ Get(a, k) = Get(b, k)

ProfileFields == {"job_title", "company", "phone_number", "bio"}

\* C1: when admin_delete_user has deleted the User an id string identifies,
\* that User, every Profile and every SocialLink with that user's id are gone
\* from the store, and the documents of every other user are as they were.
C1_DeleteRemovesExactlyThatUser ==
  \A p \in Procs :
    (Done(p, "admin_delete_user") /\ resp[p].status = 200 /\ entry[p] # None) =>
      LET target == FindOne(EntryUser(p), [_id |-> Some(ObjectId(req[p].uid))])[1]
          tid == Some(Str(target._id[1]))
          OtherUsers(coll) == SelectSeq(coll, LAMBDA d : d._id # target._id)
          Others(coll) == SelectSeq(coll, LAMBDA d : d.user_id # tid)
      IN /\ FindOne(user, [_id |-> target._id]) = None
         /\ Len(Find(profile, [user_id |-> tid])) = 0
         /\ Len(Find(sociallink, [user_id |-> tid])) = 0
         /\ OtherUsers(user) = OtherUsers(EntryUser(p))
         /\ Others(profile) = Others(EntryProfile(p))
         /\ Others(sociallink) = Others(EntryLinks(p))

\* C2: in every reachable state there is at most one Profile document per
\* user id.
C2_AtMostOneProfilePerUser ==
  \A i, j \in 1..Len(profile) : i # j => profile[i].user_id # profile[j].user_id

\* C3: in every reachable state no two User documents share an email, and no
\* two share a non-null profile_slug.
C3_UniqueEmailAndSlug ==
  \A i, j \in 1..Len(user) :
    i # j =>
      /\ Get(user[i], "email") # Get(user[j], "email")
      /\ Get(user[i], "profile_slug") # None =>
           Get(user[i], "profile_slug") # Get(user[j], "profile_slug")

\* C4: update_profile overwrites exactly the fields its payload gives a
\* non-null value (the empty string included) and leaves every other field of
\* the acting user's Profile as it was; with no Profile it creates one for the
\* acting user; no other document of the store changes.
C4_UpdateProfileFrame ==
  \A p \in Procs :
    (Done(p, "update_profile") /\ resp[p].status = 200 /\ entry[p] # None) =>
      LET old == EntryProfile(p)
          mine == [user_id |-> Some(Uid(p))]
          payload == req[p].payload
      IN /\ user = EntryUser(p)
         /\ sociallink = EntryLinks(p)
         /\ IF MatchedCount(old, mine) = 1
            THEN LET i == FirstMatch(old, mine) IN
                 /\ Len(profile) = Len(old)
                 /\ \A j \in 1..Len(old) : j # i => profile[j] = old[j]
                 /\ \A k \in ProfileFields :
                      IF payload[k] # None
                      THEN k \in DOMAIN profile[i] /\ profile[i][k] = payload[k]
                      ELSE SameKey(profile[i], old[i], k)
                 /\ \A k \in {"_id", "user_id", "profile_image_path", "created_at"} :
                      SameKey(profile[i], old[i], k)
                 /\ DOMAIN profile[i] \subseteq
                      (DOMAIN old[i]) \cup ProfileFields \cup {"updated_at"}
            ELSE /\ Len(profile) = Len(old) + 1
                 /\ SubSeq(profile, 1, Len(old)) = old
                 /\ LET d == profile[Len(profile)] IN
                    /\ d.user_id = Some(Uid(p))
                    /\ \A k \in ProfileFields :
                         IF payload[k] # None
                         THEN k \in DOMAIN d /\ d[k] = payload[k]
                         ELSE k \notin DOMAIN d
                    /\ "profile_image_path" \notin DOMAIN d

\* C4 witness: a partial update of an existing Profile has overwritten company
\* and left the job title the bootstrap wrote.
C4_Witness ==
  \E p \in Procs :
    /\ Done(p, "update_profile") /\ resp[p].status = 200 /\ entry[p] # None
    /\ req[p].payload.company # None /\ req[p].payload.job_title = None
    /\ MatchedCount(EntryProfile(p), [user_id |-> Some(Uid(p))]) = 1
    /\ LET i == FirstMatch(EntryProfile(p), [user_id |-> Some(Uid(p))]) IN
       /\ Get(EntryProfile(p)[i], "company") # req[p].payload.company
       /\ Get(profile[i], "company") = req[p].payload.company
       /\ Get(profile[i], "job_title") = Some("Vibe Coding Agent")

\* the same request as the one p completed just before, nothing in between
Repeated(p) ==
  /\ Done(p, "update_profile") /\ resp[p].status = 200
  /\ pre[p] # None /\ last[p] = req[p]

\* C5 as stated: the same update_profile payload applied twice in a row leaves
\* the Profile documents as one application left them, field for field.
C5_SecondUpdateChangesNothing == \A p \in Procs : Repeated(p) => profile = PreProfile(p)

Without(doc, key) == [k \in (DOMAIN doc) \ {key} |-> doc[k]]

\* C5 amended: the second application leaves the same documents with the same
\* fields, but for updated_at of the acting user's Profile, which it refreshes.
C5_SecondUpdateChangesOnlyTimestamp ==
  \A p \in Procs :
    Repeated(p) =>
      /\ user = PreUser(p)
      /\ sociallink = PreLinks(p)
      /\ Len(profile) = Len(PreProfile(p))
      /\ \A i \in 1..Len(profile) :
           /\ DOMAIN profile[i] = DOMAIN PreProfile(p)[i]
           /\ Without(profile[i], "updated_at") = Without(PreProfile(p)[i], "updated_at")
           /\ profile[i].updated_at[1] >= PreProfile(p)[i].updated_at[1]
           /\ profile[i].user_id # Some(Uid(p)) => profile[i] = PreProfile(p)[i]

\* C5 witness: the first application created the Profile (it has no
\* profile_image_path, which only the bootstrap writes) and the second one
\* refreshed its timestamp.
C5_Witness ==
  \E p \in Procs :
    /\ Repeated(p)
    /\ \E i \in 1..Len(profile) :
         /\ profile[i].user_id = Some(Uid(p))
         /\ "profile_image_path" \notin DOMAIN profile[i]
         /\ "company" \in DOMAIN profile[i]
         /\ profile[i].updated_at # PreProfile(p)[i].updated_at

\* C6: delete_social_link answers Not Found (404), and leaves the sociallink
\* collection as it was, both for an id whose document another user owns and
\* for an id that names no document; it removes a link only when the acting
\* user owns it, and then that link alone.
C6_DeleteLinkOwnOr404 ==
  \A p \in Procs :
    (Done(p, "delete_social_link") /\ entry[p] # None /\ cur[p] # None) =>
      LET old == EntryLinks(p)
          named == SelectSeq(old, LAMBDA d : Str(d._id[1]) = req[p].sid
                                               \/ UpperCase(Str(d._id[1])) = req[p].sid)
      IN IF Len(named) > 0 /\ named[1].user_id = Some(Uid(p))
         THEN /\ resp[p] = Response(200, "deleted")
              /\ sociallink = SelectSeq(old, LAMBDA d : d._id # named[1]._id)
              /\ Len(sociallink) = Len(old) - 1
         ELSE /\ resp[p] = Response(404, "Not found")
              /\ sociallink = old

EmptyPayload(payload) == \A k \in DOMAIN payload : payload[k] = None

\* C7 as stated: an admin update whose payload has no non-null field returns
\* the no-op status and leaves the store as it was before the request.
C7_EmptyUpdateLeavesStore ==
  \A p \in Procs :
    (Done(p, "admin_update_user") /\ pre[p] # None /\ EmptyPayload(req[p].payload)) =>
      /\ resp[p] = Response(200, "no_changes")
      /\ store = pre[p][1]

\* C7 amended: such a request never looks the id up and its handler writes
\* nothing; it returns the no-op status when the acting user is an admin and
\* Forbidden (403) when not.  The store is as before the request when a user
\* with the demo email exists; when none does, the bootstrap has inserted the
\* demo user, its profile and its three links, and nothing else has changed.
C7_EmptyUpdateOnlyBootstraps ==
  \A p \in Procs :
    (Done(p, "admin_update_user") /\ pre[p] # None /\ EmptyPayload(req[p].payload)) =>
      /\ tmp[p] = None
      /\ entry[p] # None /\ store = entry[p][1]
      /\ cur[p] # None
      /\ resp[p] = IF Get(cur[p][1], "is_admin") = Some(TRUE)
                   THEN Response(200, "no_changes") ELSE Response(403, "Admin only")
      /\ IF \E i \in 1..Len(PreUser(p)) : Get(PreUser(p)[i], "email") = Some(DemoEmail)
         THEN store = pre[p][1]
         ELSE LET n == Len(PreUser(p))
                  uid == Some(Str(user[n + 1]._id[1]))
              IN /\ Len(user) = n + 1 /\ SubSeq(user, 1, n) = PreUser(p)
                 /\ Get(user[n + 1], "email") = Some(DemoEmail)
                 /\ cur[p] = Some(user[n + 1])
                 /\ Len(profile) = Len(PreProfile(p)) + 1
                 /\ SubSeq(profile, 1, Len(PreProfile(p))) = PreProfile(p)
                 /\ profile[Len(profile)].user_id = uid
                 /\ Len(sociallink) = Len(PreLinks(p)) + 3
                 /\ SubSeq(sociallink, 1, Len(PreLinks(p))) = PreLinks(p)
                 /\ \A i \in (Len(PreLinks(p)) + 1)..Len(sociallink) : sociallink[i].user_id = uid

\* C7 witness: an empty update of a malformed id, by an admin that was already
\* in the store, has returned the no-op status with the store untouched.
C7_Witness ==
  \E p \in Procs :
    /\ Done(p, "admin_update_user") /\ pre[p] # None /\ EmptyPayload(req[p].payload)
    /\ req[p].uid = Malformed
    /\ Len(PreUser(p)) > 0
    /\ resp[p] = Response(200, "no_changes")
    /\ store = pre[p][1]

\* the admin request of p has made its lookup by id, alone
LookedUp(p) ==
  /\ pc[p] = "done" /\ req[p].kind \in AdminKinds
  /\ entry[p] # None /\ tmp[p] # None

\* uid is well formed and is the id of a User
Identifies(uid, users) ==
  \E i \in 1..Len(users) : uid \in {Str(users[i]._id[1]), UpperCase(Str(users[i]._id[1]))}

\* C8 as stated: on admin get, update and delete by id, a malformed id or a
\* store exception in the lookup gives Invalid Input (400); Not Found (404) is
\* given only for a well-formed id that is the id of no User.
C8_LookupErrorIs400 ==
  \A p \in Procs :
    LookedUp(p) =>
      /\ (req[p].uid.form = "bad" \/ tmp[p][1].raised) => resp[p].status = 400
      /\ resp[p].status = 404 =>
           /\ req[p].uid.form # "bad"
           /\ ~Identifies(req[p].uid, EntryUser(p))

\* C8 amended: that holds of admin update and admin delete; admin get swallows
\* the exception and gives Not Found (404) for a malformed id or a store
\* exception, as for an id of no User.
C8_LookupErrorIs400ExceptGet ==
  \A p \in Procs :
    LookedUp(p) =>
      LET raised == req[p].uid.form = "bad" \/ tmp[p][1].raised
          found == Identifies(req[p].uid, EntryUser(p))
      IN IF req[p].kind = "admin_get_user"
         THEN resp[p].status = IF raised \/ ~found THEN 404 ELSE 200
         ELSE resp[p].status = IF raised THEN 400 ELSE IF ~found THEN 404 ELSE 200

\* C8 witness: admin get of a malformed id has answered Not Found.
C8_Witness ==
  \E p \in Procs :
    /\ LookedUp(p) /\ req[p].kind = "admin_get_user"
    /\ req[p].uid = Malformed
    /\ resp[p].status = 404

Present(v) == v # None /\ v # Some("")

Text(v) == IF Present(v) THEN v[1] ELSE ""

\* the vCard the specification prescribes for the user of a slug, as the
\* sequence of its pieces
PrescribedVCard(slug) ==
  LET u == Find(user, [profile_slug |-> Some(slug)])[1]
      uid == Some(Str(u._id[1]))
      profs == Find(profile, [user_id |-> uid])
      field(k) == IF Len(profs) = 0 THEN None ELSE Get(profs[1], k)
      web == SelectSeq(Find(sociallink, [user_id |-> uid]),
                       LAMBDA l : \E w \in {"website", "link", "url"} : l.platform = Some(w))
  IN <<"BEGIN:VCARD", "\r\n", "VERSION:3.0", "\r\n",
       "N:", u.name[1], ";", "\r\n",
       "FN:", u.name[1], "\r\n",
       "ORG:", Text(field("company")), "\r\n",
       "TITLE:", Text(field("job_title")), "\r\n">>
     \o (IF Present(field("phone_number"))
         THEN <<"TEL;TYPE=CELL:", field("phone_number")[1], "\r\n">> ELSE <<>>)
     \o (IF Present(u.email) THEN <<"EMAIL;TYPE=INTERNET:", u.email[1], "\r\n">> ELSE <<>>)
     \o (IF Len(web) > 0 THEN <<"URL:", web[1].url[1], "\r\n">> ELSE <<>>)
     \o <<"END:VCARD">>

\* C9: the payload of get_vcard for an existing slug is BEGIN:VCARD,
\* VERSION:3.0, N:<name>;, FN:<name>, ORG:<company or empty>, TITLE:<job title
\* or empty>, TEL iff the phone is present (not null, not empty), EMAIL iff the
\* email is present, URL of the first link whose platform is website, link or
\* url iff there is one, END:VCARD, joined with CRLF, and nothing else.
C9_VCardLines ==
  \A p \in Procs :
    (Done(p, "get_vcard") /\ resp[p].status = 200 /\ pre[p] # None) =>
      resp[p].body[1].vcard_str = PrescribedVCard(req[p].slug)

\* C9 witness: a vCard with its URL and EMAIL lines and, the stored phone
\* being the empty string, without the TEL line.
C9_Witness ==
  \E p \in Procs :
    /\ Done(p, "get_vcard") /\ resp[p].status = 200 /\ pre[p] # None
    /\ \E d \in Range(profile) : Get(d, "phone_number") = Some("")
    /\ LET v == resp[p].body[1].vcard_str IN
       /\ \E i \in 1..Len(v) : v[i] = "URL:"
       /\ \E i \in 1..Len(v) : v[i] = "EMAIL;TYPE=INTERNET:"
       /\ \A i \in 1..Len(v) : v[i] # "TEL;TYPE=CELL:"

\* C10: whenever no request is in progress, every Profile and every
\* SocialLink has the id of a User of the store as its user_id.
C10_ReferentialIntegrity ==
  (\A p \in Procs : ~InProgress(p)) =>
    LET ids == {Some(Str(u._id[1])) : u \in Range(user)} IN
    /\ \A i \in 1..Len(profile) : profile[i].user_id \in ids
    /\ \A i \in 1..Len(sociallink) : sociallink[i].user_id \in ids

====
